---- MODULE Spec2Model ----
(***************************************************************************)
(* Model of the Notion equation fixer: the page scripts JS_FIND_MATCHES,   *)
(* JS_SELECT_MATCH and JS_EXPAND_TOGGLES (src/constants.py) and the pass   *)
(* loop process_all_matches (src/fix_notion_eqns.py), run against a small  *)
(* document tree that an external renderer owns.                           *)
(***************************************************************************)
EXTENDS Integers, Sequences, FiniteSets, TLC

VARIABLES
    dom,          \* the document tree (owned by the page / external renderer)
    selection,    \* window.getSelection(): a sequence of ranges
    focus,        \* document.activeElement
    scrolled,     \* elements scrollIntoView was called on, in call order
    pc,           \* position of process_all_matches
    max_passes,   \* argument of process_all_matches
    pass,         \* _pass, the index of the for loop
    processed,    \* local counter of process_all_matches
    matches,      \* result of the scan of the current pass
    m,            \* the MatchRef handed to JS_SELECT_MATCH
    sel_res,      \* value execute_script(JS_SELECT_MATCH) returned to Python
    returned,     \* return value of process_all_matches (-1 until it returns)
    mutations,    \* number of changes the renderer made on its own
    hist,         \* history of the calls made so far (observation only)
    probe         \* inputs and results of a script run on its own

vars == <<dom, selection, focus, scrolled, pc, max_passes, pass, processed,
          matches, m, sel_res, returned, mutations, hist, probe>>

-----------------------------------------------------------------------------
(* Bounds of the model *)

MaxPasses == 4

MaxMutations == 1

\* Longest text of the text node the scan script is tried on
MaxTextLen == 7

-----------------------------------------------------------------------------
(* Text: a string is a sequence of one-character strings; offsets are 0-based
   as in JavaScript, so the character at offset k of s is s[k+1]. *)

Dollar == "$"

CharAt(s, k) == IF k >= 0 /\ k < Len(s) THEN s[k + 1] ELSE ""

\* s.slice(from, to) for 0 <= from, to
Slice(s, from, to) == IF from >= to THEN << >> ELSE SubSeq(s, from + 1, to)

\* s.indexOf('$') === -1
HasNoDollar(s) == \A k \in 1..Len(s) : s[k] # Dollar

Max2(a, b) == IF a >= b THEN a ELSE b

Min2(a, b) == IF a <= b THEN a ELSE b

\* First alternative \$\$(.+?)\$\$ tried at offset p: the lazy .+? takes at least
\* one character (any character, flag s) and stops at the first closing $$.
\* The result is the offset just past the match, or -1 when it does not match.
DoubleEndAt(s, p) ==
    IF CharAt(s, p) = Dollar /\ CharAt(s, p + 1) = Dollar
    THEN LET closers == {q \in (p + 3)..(Len(s) - 2) :
                            CharAt(s, q) = Dollar /\ CharAt(s, q + 1) = Dollar}
         IN  IF closers = {} THEN -1
             ELSE (CHOOSE q \in closers : \A r \in closers : q <= r) + 2
    ELSE -1

\* Second alternative \$(.+?)\$ tried at offset p.
SingleEndAt(s, p) ==
    IF CharAt(s, p) = Dollar
    THEN LET closers == {q \in (p + 2)..(Len(s) - 1) : CharAt(s, q) = Dollar}
         IN  IF closers = {} THEN -1
             ELSE (CHOOSE q \in closers : \A r \in closers : q <= r) + 1
    ELSE -1

MatchEndSingleFirst(s, p) ==
    IF SingleEndAt(s, p) # -1 THEN SingleEndAt(s, p) ELSE DoubleEndAt(s, p)

\* The alternation at offset p: the first alternative wins when it matches.
MatchEndAt(s, p) ==
    IF DoubleEndAt(s, p) # -1 THEN DoubleEndAt(s, p) ELSE SingleEndAt(s, p)

\* re.exec(s) with re.lastIndex = from: the leftmost offset >= from where the
\* pattern matches (-1 for a null result).
RegexExecIndex(s, from) ==
    LET starts == {p \in from..(Len(s) - 1) : MatchEndAt(s, p) # -1}
    IN  IF starts = {} THEN -1
        ELSE CHOOSE q \in starts : \A r \in starts : q <= r

RECURSIVE ExecAllFromNextChar(_, _)
ExecAllFromNextChar(s, from) ==
    LET p == RegexExecIndex(s, from)
    IN  IF p = -1 THEN << >>
        ELSE <<[start |-> p, end |-> MatchEndAt(s, p)]>> \o ExecAllFromNextChar(s, p + 1)

\* while ((m = re.exec(s)) !== null) ... : the global flag restarts each exec at
\* the end of the previous match; start = m.index, end = start + m[0].length.
RECURSIVE ExecAll(_, _)
ExecAll(s, from) ==
    LET p == RegexExecIndex(s, from)
    IN  IF p = -1 THEN << >>
        ELSE <<[start |-> p, end |-> MatchEndAt(s, p)]>> \o ExecAll(s, MatchEndAt(s, p))

-----------------------------------------------------------------------------
(* The document tree.  The nodes are named; nodeType and nodeName of a node
   never change.  A tree d records what can:
     kids[n]      childNodes of a document or element node n, in order
     id[n]        the id attribute of the elements that have one
     content      the elements that carry class notion-page-content
     leaf         the elements with data-content-editable-leaf="true"
     editable     the elements with contenteditable="true"
     nobox        the elements without a rendered layout box (offsetParent === null)
     expanded[n]  aria-expanded of the role=button elements
     value[n]     nodeValue of a text node
   A node that is in no kids sequence (and is not the document) is detached. *)

Nodes == {"document", "html", "body", "side", "sideText", "root", "toggle",
          "L1", "t1", "span", "t2", "L2", "t3"}

TextNodes == {"sideText", "t1", "t2", "t3"}

Kind(n) == IF n = "document" THEN "document"
           ELSE IF n \in TextNodes THEN "text" ELSE "element"

\* nodeName.toLowerCase()
Tag(n) == IF n \in {"html", "body", "span"} THEN n
          ELSE IF n = "document" THEN "#document"
          ELSE IF n \in TextNodes THEN "#text" ELSE "div"

\* The element a toggle button shows when the page expands it
Reveals(n) == IF n = "toggle" THEN "L2" ELSE "null"

Kids(d, n) == IF n \in DOMAIN d.kids THEN d.kids[n] ELSE << >>

IdOf(d, n) == IF n \in DOMAIN d.id THEN d.id[n] ELSE << >>

Expanded(d, n) == IF n \in DOMAIN d.expanded THEN d.expanded[n] ELSE ""

NoNode == "null"

RECURSIVE Subtree(_, _), Forest(_, _)
\* n and its descendants in document order (depth first, pre-order)
Subtree(d, n) == <<n>> \o Forest(d, Kids(d, n))

Forest(d, ns) == IF ns = << >> THEN << >> ELSE Subtree(d, Head(ns)) \o Forest(d, Tail(ns))

Descendants(d, n) == Tail(Subtree(d, n))

Range(seq) == {seq[i] : i \in 1..Len(seq)}

IsElement(d, n) == n # NoNode /\ Kind(n) = "element"

\* n.parentNode (NoNode for the document and for a detached node)
ParentOf(d, n) ==
    LET ps == {p \in Nodes : n \in Range(Kids(d, p))}
    IN  IF ps = {} THEN NoNode ELSE CHOOSE p \in ps : TRUE

\* n.parentElement
ParentElementOf(d, n) ==
    IF IsElement(d, ParentOf(d, n)) THEN ParentOf(d, n) ELSE NoNode

ContentRootOrBody(d) ==
    LET hits == SelectSeq(Subtree(d, "document"),
                          LAMBDA n : Kind(n) = "element" /\ n \in d.content)
    IN  IF hits = << >> THEN "body" ELSE Head(hits)

\* document.querySelector('.notion-page-content')
ContentRoot(d) ==
    LET hits == SelectSeq(Subtree(d, "document"),
                          LAMBDA n : Kind(n) = "element" /\ n \in d.content)
    IN  IF hits = << >> THEN NoNode ELSE Head(hits)

CandidatesWithHidden(d, root) ==
    SelectSeq(Descendants(d, root), LAMBDA n : Kind(n) = "element" /\ n \in d.leaf)

\* root.querySelectorAll('[data-content-editable-leaf="true"]')
\*     .filter(el => el && el.offsetParent !== null)
Candidates(d, root) ==
    SelectSeq(Descendants(d, root),
              LAMBDA n : Kind(n) = "element" /\ n \in d.leaf /\ n \notin d.nobox)

\* getTextNodes(el): the TreeWalker with SHOW_TEXT rooted at el
GetTextNodes(d, el) == SelectSeq(Descendants(d, el), LAMBDA n : Kind(n) = "text")

RECURSIVE InnerText(_, _), InnerTextOfAll(_, _)
\* el.innerText: the text of the rendered descendants of el
InnerText(d, n) ==
    IF Kind(n) = "text" THEN d.value[n]
    ELSE IF n \in d.nobox THEN << >>
    ELSE InnerTextOfAll(d, Kids(d, n))

InnerTextOfAll(d, ns) ==
    IF ns = << >> THEN << >> ELSE InnerText(d, Head(ns)) \o InnerTextOfAll(d, Tail(ns))

\* The element children of p with the nodeName of el, in order
SameTagSiblings(d, p, t) ==
    IF p = NoNode THEN << >>
    ELSE SelectSeq(Kids(d, p), LAMBDA c : Kind(c) = "element" /\ Tag(c) = t)

IndexIn(seq, x) ==
    IF x \in Range(seq) THEN CHOOSE i \in 1..Len(seq) : seq[i] = x ELSE 0

PathPartAlwaysOrdinal(d, el) ==
    [tag |-> Tag(el), idx |-> IndexIn(SameTagSiblings(d, ParentOf(d, el), Tag(el)), el)]

\* One step of getXPath's loop: tagName, with [idx] only when nb > 1 (idx = 0
\* stands for a segment without ordinal).
PathPart(d, el) ==
    LET sibs == SameTagSiblings(d, ParentOf(d, el), Tag(el))
        nb   == Len(sibs)
        idx  == IndexIn(sibs, el)
    IN  [tag |-> Tag(el), idx |-> IF nb > 1 THEN idx ELSE 0]

RECURSIVE PathParts(_, _)
\* while (el && el.nodeType === Node.ELEMENT_NODE) { parts.unshift(part); el = el.parentNode }
PathParts(d, el) ==
    IF ~IsElement(d, el) THEN << >>
    ELSE Append(PathParts(d, ParentOf(d, el)), PathPart(d, el))

\* getXPath(el): //*[@id="..."] when el.id is non-empty, else '/' + parts.join('/').
\* The address is kept as the parts the string is put together from: for the id
\* form the characters of el.id, copied between the two quotes as they are; for
\* the path form the segments (the tag names of the pages here are plain names).
GetXPath(d, el) ==
    IF IdOf(d, el) # << >>
    THEN [form |-> "id", id |-> IdOf(d, el), parts |-> << >>]
    ELSE [form |-> "path", id |-> << >>, parts |-> PathParts(d, el)]

\* One location step tag or tag[idx] applied to the node set cur
StepNodes(d, cur, part) ==
    {c \in Nodes : \E p \in cur :
        LET sibs == SameTagSiblings(d, p, part.tag)
        IN  c \in Range(sibs) /\ (part.idx = 0 \/ IndexIn(sibs, c) = part.idx)}

RECURSIVE PathNodes(_, _, _)
PathNodes(d, cur, parts) ==
    IF parts = << >> THEN cur
    ELSE PathNodes(d, StepNodes(d, cur, Head(parts)), Tail(parts))

Quote == "\""

\* The XPath string literal that starts after //*[@id=" : it ends at the first
\* quote of the text that follows, wherever that quote came from.
LiteralEnd(text) ==
    LET qs == {k \in 0..(Len(text) - 1) : CharAt(text, k) = Quote}
    IN  IF qs = {} THEN Len(text) ELSE CHOOSE k \in qs : \A j \in qs : k <= j

XPathLiteral(text) == Slice(text, 0, LiteralEnd(text))

\* What follows the literal's closing quote must be the ']' the encoder wrote;
\* characters of the id left over after an early quote make the expression
\* malformed (the ids here hold letters and quotes only).
XPathWellFormed(path) == path.form = "path" \/ LiteralEnd(path.id) = Len(path.id)

\* document.evaluate throws a SyntaxError on a malformed expression
XPathError == "SyntaxError"

\* The nodes of the document a well-formed expression selects
XPathNodeSet(d, path) ==
    IF path.form = "id"
    THEN {n \in Range(Subtree(d, "document")) :
            Kind(n) = "element" /\ IdOf(d, n) = XPathLiteral(path.id)}
    ELSE PathNodes(d, {"document"}, path.parts)

\* XPathResult.FIRST_ORDERED_NODE_TYPE: of the nodes selected, in document
\* order, the first
FirstOrdered(hits) == Head(hits)

\* elementByXPath(path): document.evaluate(path, document, null,
\* FIRST_ORDERED_NODE_TYPE, null).singleNodeValue, the first node in document
\* order of the node set the path selects.
ElementByXPath(d, path) ==
    LET set  == XPathNodeSet(d, path)
        hits == SelectSeq(Subtree(d, "document"), LAMBDA n : n \in set)
    IN  IF ~XPathWellFormed(path) THEN XPathError
        ELSE IF hits = << >> THEN NoNode ELSE FirstOrdered(hits)

-----------------------------------------------------------------------------
(* JS_FIND_MATCHES *)

\* s.slice(Math.max(0, start-10), Math.min(s.length, end+10))
Preview(s, start, end) == Slice(s, Max2(0, start - 10), Min2(Len(s), end + 10))

\* The results pushed for text node tn, the ti-th (0-based) text node of el
NodeMatches(d, el, ti, tn) ==
    LET s  == d.value[tn]
        ms == IF HasNoDollar(s) THEN << >> ELSE ExecAll(s, 0)
    IN  [k \in 1..Len(ms) |->
            [xpath |-> GetXPath(d, el), nodeIndex |-> ti,
             start |-> ms[k].start, end |-> ms[k].end,
             preview |-> Preview(s, ms[k].start, ms[k].end)]]

FirstTextNodeOnly(d, el, tns, ti) ==
    IF tns = << >> THEN << >> ELSE NodeMatches(d, el, 0, tns[1])

RECURSIVE TextNodesMatches(_, _, _, _)
\* for (let ti = 0; ti < textNodes.length; ti++) from ti on
TextNodesMatches(d, el, tns, ti) ==
    IF ti >= Len(tns) THEN << >>
    ELSE NodeMatches(d, el, ti, tns[ti + 1]) \o TextNodesMatches(d, el, tns, ti + 1)

\* el.textContent: the text of all the text nodes below el
RECURSIVE TextContent(_, _)
TextContent(d, tns) ==
    IF tns = << >> THEN << >> ELSE d.value[Head(tns)] \o TextContent(d, Tail(tns))

\* const t = el.innerText || "": for an element that is not rendered innerText
\* is its textContent, otherwise the text of its rendered descendants
LeafInnerText(d, el) ==
    IF el \in d.nobox THEN TextContent(d, GetTextNodes(d, el)) ELSE InnerText(d, el)

\* The body of "for (const el of candidates)" for one candidate
LeafMatches(d, el) ==
    IF HasNoDollar(LeafInnerText(d, el)) THEN << >>
    ELSE TextNodesMatches(d, el, GetTextNodes(d, el), 0)

RECURSIVE LeavesMatchesLastFirst(_, _)
LeavesMatchesLastFirst(d, els) ==
    IF els = << >> THEN << >>
    ELSE LeavesMatchesLastFirst(d, Tail(els)) \o LeafMatches(d, Head(els))

RECURSIVE LeavesMatches(_, _)
LeavesMatches(d, els) ==
    IF els = << >> THEN << >>
    ELSE LeafMatches(d, Head(els)) \o LeavesMatches(d, Tail(els))

\* The value of the whole script
FindMatches(d) ==
    IF ContentRoot(d) = NoNode THEN << >>
    ELSE LeavesMatches(d, Candidates(d, ContentRoot(d)))

-----------------------------------------------------------------------------
(* JS_SELECT_MATCH *)

\* nodeIndex < 0 || nodeIndex >= textNodes.length
IndexOutOfRange(nodeIndex, n) == nodeIndex < 0 \/ nodeIndex >= n

OffsetsInvalidAllowsEmpty(start, end, len) == start < 0 \/ end > len \/ start > end

\* start < 0 || end > val.length || start >= end
OffsetsInvalid(start, end, len) == start < 0 \/ end > len \/ start >= end

RECURSIVE ClosestEditable(_, _)
\* The loop over focusEl: the first of el, el.parentElement, ... whose
\* contenteditable attribute is "true" (NoNode when the walk runs off the top).
ClosestEditable(d, el) ==
    IF ~IsElement(d, el) THEN NoNode
    ELSE IF el \in d.editable THEN el
    ELSE ClosestEditable(d, ParentElementOf(d, el))

\* if (focusEl) focusEl.focus();
FocusAfter(d, el, foc) ==
    IF ClosestEditable(d, el) # NoNode THEN ClosestEditable(d, el) ELSE foc

KeepsOldRanges(sel, range) == Append(sel, range)

\* sel.removeAllRanges(); sel.addRange(range)
NewSelection(sel, range) == <<range>>

Failure(reason) == [ok |-> FALSE, error |-> reason]

Success == [ok |-> TRUE, error |-> ""]

TreeAfterExtract(d, range) ==
    [d EXCEPT !.value[range.node] =
        Slice(@, 0, range.start) \o Slice(@, range.end, Len(@))]

\* range.setStart(tn, start); range.setEnd(tn, end); sel.addRange(range): the
\* range marks characters of the text node and takes nothing out of the tree.
TreeAfterRange(d, range) == d

\* The whole script on tree d with the page's selection sel, focus foc and the
\* scroll calls scr made so far: the value it returns and what it leaves behind
\* (raised: the script ended by an exception and returned nothing).
SelectMatch(d, sel, foc, scr, args) ==
    LET el  == ElementByXPath(d, args.xpath)
        tns == GetTextNodes(d, el)
        tn  == tns[args.nodeIndex + 1]
    IN  IF el = XPathError
        THEN [raised |-> TRUE, res |-> Failure(XPathError), dom |-> d,
              selection |-> sel, focus |-> foc, scrolled |-> scr]
        ELSE IF el = NoNode
        THEN [raised |-> FALSE, res |-> Failure("Element not found for XPath"), dom |-> d,
              selection |-> sel, focus |-> foc, scrolled |-> scr]
        ELSE IF IndexOutOfRange(args.nodeIndex, Len(tns))
        THEN [raised |-> FALSE, res |-> Failure("Text node index out of range"), dom |-> d,
              selection |-> sel, focus |-> foc, scrolled |-> Append(scr, el)]
        ELSE IF OffsetsInvalid(args.start, args.end, Len(d.value[tn]))
        THEN [raised |-> FALSE, res |-> Failure("Offsets invalid for text node"), dom |-> d,
              selection |-> sel, focus |-> foc, scrolled |-> Append(scr, el)]
        ELSE [raised |-> FALSE, res |-> Success,
              dom |-> TreeAfterRange(d, [node |-> tn, start |-> args.start,
                                         end |-> args.end]),
              selection |-> NewSelection(sel, [node |-> tn, start |-> args.start,
                                                   end |-> args.end]),
              focus |-> FocusAfter(d, el, foc),
              scrolled |-> Append(scr, el)]

-----------------------------------------------------------------------------
(* JS_EXPAND_TOGGLES and the page's reaction to the clicks *)

\* root.querySelectorAll('[role="button"][aria-expanded="false"]')
CollapsedToggles(d, root) ==
    {n \in Range(Descendants(d, root)) : Kind(n) = "element" /\ Expanded(d, n) = "false"}

\* b.click() on every collapsed toggle: the page expands it and renders the
\* element it controls.
ExpandToggles(d) ==
    IF ContentRoot(d) = NoNode THEN d
    ELSE LET bs == CollapsedToggles(d, ContentRoot(d))
         IN  [d EXCEPT !.expanded = [n \in DOMAIN @ |-> IF n \in bs THEN "true" ELSE @[n]],
                       !.nobox = @ \ {Reveals(b) : b \in bs}]

-----------------------------------------------------------------------------
(* The external collaborators: the conversion the keystrokes of
   send_shortcut_and_enter cause in the page, and the renderer's own changes
   of the tree. *)

RangeValid(d, r) ==
    /\ ParentOf(d, r.node) # NoNode
    /\ 0 <= r.start /\ r.start < r.end /\ r.end <= Len(d.value[r.node])

\* The keystrokes go to the focused element: the page converts the selection
\* only when focus is on an editable element that contains the selected text.
KeysReachEditor(d, sel, foc) ==
    /\ IsElement(d, foc) /\ foc \in d.editable
    /\ sel # << >> /\ sel[1].node \in Range(Subtree(d, foc))

\* The conversion takes the selected characters out of their text node.
RemoveSelected(d, sel) ==
    IF sel # << >> /\ RangeValid(d, sel[1])
    THEN LET r == sel[1]
             s == d.value[r.node]
         IN  [d EXCEPT !.value[r.node] = Slice(s, 0, r.start) \o Slice(s, r.end, Len(s))]
    ELSE d

CollapseSelection(d, sel) ==
    IF sel # << >> /\ RangeValid(d, sel[1])
    THEN <<[node |-> sel[1].node, start |-> sel[1].start, end |-> sel[1].start]>>
    ELSE sel

\* Values the renderer may give a text node, and nodes it may take out
RendererTexts == {<< >>, <<"a", "$", "a", "$">>}

RendererRemovable == {"L1", "span", "root"}

TextNodesOfLeaves == {"t1", "t2", "t3"}

Detach(d, n) ==
    [d EXCEPT !.kids = [p \in DOMAIN @ |-> SelectSeq(@[p], LAMBDA c : c # n)]]

-----------------------------------------------------------------------------
(* process_all_matches *)

RangeHasNextInclusive(i, n) == i <= n

\* for _pass in range(max_passes): there is a next iteration
RangeHasNext(i, n) == i < n

NoMatchesOrOne(ms) == Len(ms) <= 1

\* if not matches: break
NoMatches(ms) == ms = << >>

LastMatch(ms) == ms[Len(ms)]

\* m = matches[0]
FirstMatch(ms) == ms[1]

\* The dictionary handed to JS_SELECT_MATCH
SelectArgs(mr) ==
    [xpath |-> mr.xpath, nodeIndex |-> mr.nodeIndex, start |-> mr.start, end |-> mr.end]

SelectFailedOnlyNone(sr) == sr = << >>

\* if not sel_res or not sel_res.get("ok"); sr is << >> for None, else <<result>>
SelectFailedTest(sr) == sr = << >> \/ ~sr[1].ok

NotCounted(p) == p

\* processed += 1
Counted(p) == p + 1

\* The value of probe while no script is run on its own
NoProbe == [step |-> "none"]

\* The value of m before the first assignment
NoMatch ==
    [xpath |-> [form |-> "", id |-> << >>, parts |-> << >>], nodeIndex |-> 0,
     start |-> 0, end |-> 0, preview |-> << >>]

-----------------------------------------------------------------------------
(* The documents the model starts from *)

BaseKids ==
    [n \in Nodes \ TextNodes |->
        CASE n = "document" -> <<"html">>
          [] n = "html"     -> <<"body">>
          [] n = "body"     -> <<"side", "root">>
          [] n = "side"     -> <<"sideText">>
          [] n = "root"     -> <<"toggle", "L1", "L2">>
          [] n = "L1"       -> <<"t1", "span">>
          [] n = "span"     -> <<"t2">>
          [] n = "L2"       -> <<"t3">>
          [] OTHER          -> << >>]

\* A page: a side bar outside the content root, and under the root a toggle
\* button and two editable leaves, the first with a nested span, the second
\* rendered only while the toggle is expanded.
MakeDoc(hasRoot, sideId, leafId, ce, collapsed, v1, v2, v3) ==
    [kids     |-> BaseKids,
     id       |-> [n \in {e \in {"side", "L1"} : (IF e = "side" THEN sideId ELSE leafId) # << >>}
                       |-> IF n = "side" THEN sideId ELSE leafId],
     content  |-> IF hasRoot THEN {"root"} ELSE {},
     leaf     |-> {"L1", "L2"},
     editable |-> IF ce = "leaf" THEN {"L1", "L2"} ELSE IF ce = "root" THEN {"root"} ELSE {},
     nobox    |-> IF collapsed THEN {"L2"} ELSE {},
     expanded |-> [n \in {"toggle"} |-> IF collapsed THEN "false" ELSE "true"],
     value    |-> [n \in TextNodes |-> CASE n = "t1" -> v1 [] n = "t2" -> v2 [] n = "t3" -> v3
                                         [] OTHER -> <<"$", "a", "$">>]]

Plain == <<"a">>

OneSpan == <<"$", "a", "$">>

SpanAfterText == <<"a", "$", "a", "$">>

DoubleSpan == <<"$", "$", "a", "$", "$">>

SingleThenDouble == OneSpan \o DoubleSpan

\* ids: none, one on the first leaf, or the same one on the side bar as well
IdChoices == {<< << >>, << >> >>, << << >>, <<"x">> >>, << <<"x">>, <<"x">> >>}

UniqueIdChoices == {ids \in IdChoices : ids[1] = << >> \/ ids[1] # ids[2]}

Docs(ids) ==
    {MakeDoc(hasRoot, i[1], i[2], ce, collapsed, v1, v2, v3) :
        hasRoot \in BOOLEAN, i \in ids, ce \in {"none", "leaf"}, collapsed \in BOOLEAN,
        v1 \in {Plain, SingleThenDouble}, v2 \in {Plain, OneSpan},
        v3 \in {Plain, SpanAfterText}}

InitHist(d, sel) ==
    [expands |-> 0, scans |-> 0, selects |-> 0, triggers |-> 0, failures |-> 0,
     passSelects |-> 0, passTriggers |-> 0, passFailed |-> FALSE,
     passStartProcessed |-> 0, scanPass |-> -1, selArgs |-> << >>,
     scansAtTrigger |-> -1, staleTrigger |-> FALSE, exit |-> "",
     n0 |-> Len(FindMatches(ExpandToggles(d))), selection0 |-> sel]

InitWith(ds) ==
    /\ dom \in ds
    /\ selection = << >>
    /\ focus = "body"
    /\ scrolled = << >>
    /\ pc = "Loop"
    /\ max_passes \in 0..MaxPasses
    /\ pass = 0
    /\ processed = 0
    /\ matches = << >>
    /\ m = NoMatch
    /\ sel_res = << >>
    /\ returned = -1
    /\ mutations = 0
    /\ hist = InitHist(dom, selection)
    /\ probe = NoProbe

Init == InitWith(Docs(IdChoices))

-----------------------------------------------------------------------------
(* The steps of process_all_matches *)

ForLoopExpandsOnce ==
    /\ pc = "Loop"
    /\ IF RangeHasNext(pass, max_passes)
       THEN /\ pc' = IF pass = 0 THEN "Expanding" ELSE "Scanning"
            /\ hist' = [hist EXCEPT !.passSelects = 0, !.passTriggers = 0,
                                    !.passFailed = FALSE,
                                    !.passStartProcessed = processed]
            /\ UNCHANGED returned
       ELSE /\ pc' = "Returned"
            /\ returned' = processed
            /\ hist' = [hist EXCEPT !.exit = "limit"]
    /\ UNCHANGED <<probe, dom, selection, focus, scrolled, max_passes, pass, processed,
                   matches, m, sel_res, mutations>>

\* for _pass in range(max_passes): ... return processed
ForLoop ==
    /\ pc = "Loop"
    /\ IF RangeHasNext(pass, max_passes)
       THEN /\ pc' = "Expanding"
            /\ hist' = [hist EXCEPT !.passSelects = 0, !.passTriggers = 0,
                                    !.passFailed = FALSE,
                                    !.passStartProcessed = processed]
            /\ UNCHANGED returned
       ELSE /\ pc' = "Returned"
            /\ returned' = processed
            /\ hist' = [hist EXCEPT !.exit = "limit"]
    /\ UNCHANGED <<probe, dom, selection, focus, scrolled, max_passes, pass, processed,
                   matches, m, sel_res, mutations>>

\* driver.execute_script(JS_EXPAND_TOGGLES); time.sleep(0.15)
Expand ==
    /\ pc = "Expanding"
    /\ dom' = ExpandToggles(dom)
    /\ hist' = [hist EXCEPT !.expands = @ + 1]
    /\ pc' = "Scanning"
    /\ UNCHANGED <<probe, selection, focus, scrolled, max_passes, pass, processed,
                   matches, m, sel_res, returned, mutations>>

\* matches = driver.execute_script(JS_FIND_MATCHES); if not matches: break;
\* m = matches[0]
Scan ==
    /\ pc = "Scanning"
    /\ LET ms == FindMatches(dom)
       IN  /\ matches' = ms
           /\ IF NoMatches(ms)
              THEN /\ pc' = "Returned"
                   /\ returned' = processed
                   /\ hist' = [hist EXCEPT !.scans = @ + 1, !.scanPass = pass,
                                           !.exit = "idle"]
                   /\ UNCHANGED m
              ELSE /\ pc' = "Selecting"
                   /\ m' = FirstMatch(ms)
                   /\ hist' = [hist EXCEPT !.scans = @ + 1, !.scanPass = pass]
                   /\ UNCHANGED returned
    /\ UNCHANGED <<probe, dom, selection, focus, scrolled, max_passes, pass, processed,
                   sel_res, mutations>>

\* sel_res = driver.execute_script(JS_SELECT_MATCH, {...}); the branch on it.
\* The script returns an object on every path, which Python receives as a dict;
\* when the script throws, execute_script raises and nothing catches it: the
\* function is left by the exception, sel_res unassigned.
Select ==
    /\ pc = "Selecting"
    /\ LET out == SelectMatch(dom, selection, focus, scrolled, SelectArgs(m))
           sr  == IF out.raised THEN sel_res ELSE <<out.res>>
       IN  /\ sel_res' = sr
           /\ dom' = out.dom
           /\ selection' = out.selection
           /\ focus' = out.focus
           /\ scrolled' = out.scrolled
           /\ hist' = [hist EXCEPT !.selects = @ + 1, !.passSelects = @ + 1,
                                   !.selArgs = <<SelectArgs(m)>>,
                                   !.passFailed = ~out.raised /\ ~out.res.ok,
                                   !.failures = IF ~out.raised /\ ~out.res.ok
                                                THEN @ + 1 ELSE @]
           /\ pc' = IF out.raised THEN "Raised"
                    ELSE IF SelectFailedTest(sr) THEN "SelectFailed" ELSE "Triggering"
    /\ UNCHANGED <<probe, max_passes, pass, processed, matches, m, returned, mutations>>

\* time.sleep(0.2); continue
SelectFailedSleep ==
    /\ pc = "SelectFailed"
    /\ pass' = pass + 1
    /\ pc' = "Loop"
    /\ UNCHANGED <<probe, dom, selection, focus, scrolled, max_passes, processed,
                   matches, m, sel_res, returned, mutations, hist>>

\* send_shortcut_and_enter(driver); processed += 1
\* converts: whether the page converts the selection on these keystrokes.
Trigger(converts) ==
    /\ pc = "Triggering"
    /\ dom' = IF converts THEN RemoveSelected(dom, selection) ELSE dom
    /\ selection' = IF converts THEN CollapseSelection(dom, selection) ELSE selection
    /\ processed' = Counted(processed)
    /\ hist' = [hist EXCEPT !.triggers = @ + 1, !.passTriggers = @ + 1,
                            !.staleTrigger = @ \/ hist.scansAtTrigger = hist.scans,
                            !.scansAtTrigger = hist.scans]
    /\ pc' = "Settling"
    /\ UNCHANGED <<probe, focus, scrolled, max_passes, pass, matches, m, sel_res,
                   returned, mutations>>

SettleThenScan ==
    /\ pc = "Settling"
    /\ pass' = pass + 1
    /\ pc' = "Scanning"
    /\ UNCHANGED <<probe, dom, selection, focus, scrolled, max_passes, processed,
                   matches, m, sel_res, returned, mutations, hist>>

\* time.sleep(0.6), the end of the loop body
Settle ==
    /\ pc = "Settling"
    /\ pass' = pass + 1
    /\ pc' = "Loop"
    /\ UNCHANGED <<probe, dom, selection, focus, scrolled, max_passes, processed,
                   matches, m, sel_res, returned, mutations, hist>>

-----------------------------------------------------------------------------
(* The environment's steps *)

\* Any page: the keystrokes convert the selection or do nothing.
TriggerAny ==
    \E converts \in BOOLEAN :
        /\ converts => KeysReachEditor(dom, selection, focus)
        /\ Trigger(converts)

\* A trigger that always removes the selected span.
TriggerRemoves == Trigger(TRUE)

\* The renderer changes the tree on its own while the loop runs.
RendererMutates ==
    /\ pc # "Returned"
    /\ mutations < MaxMutations
    /\ mutations' = mutations + 1
    /\ \/ \E tn \in TextNodesOfLeaves, v \in RendererTexts :
            /\ dom.value[tn] # v
            /\ dom' = [dom EXCEPT !.value[tn] = v]
       \/ \E n \in RendererRemovable :
            /\ ParentOf(dom, n) # NoNode
            /\ dom' = Detach(dom, n)
    /\ UNCHANGED <<probe, selection, focus, scrolled, pc, max_passes, pass, processed,
                   matches, m, sel_res, returned, hist>>

Next ==
    \/ ForLoop
    \/ Expand
    \/ Scan
    \/ Select
    \/ SelectFailedSleep
    \/ TriggerAny
    \/ Settle
    \/ RendererMutates

Spec == Init /\ [][Next]_vars

-----------------------------------------------------------------------------
(* The loop with a trigger that removes the triggered span and a tree nobody
   else changes; ids are unique, as the addressing presumes. *)

InitIdeal == InitWith(Docs(UniqueIdChoices))

NextIdeal ==
    \/ ForLoop
    \/ Expand
    \/ Scan
    \/ Select
    \/ TriggerRemoves
    \/ Settle

SpecIdeal == InitIdeal /\ [][NextIdeal]_vars

-----------------------------------------------------------------------------
(* JS_SELECT_MATCH alone, called once with an arbitrary argument on a page
   with or without a selection of its own.  The addresses are those of the
   elements of the page before the renderer took an element out of it, and
   one id that no element has. *)

SelectBaseDocs ==
    {MakeDoc(TRUE, i[1], i[2], ce, FALSE, SpanAfterText, OneSpan, DoubleSpan) :
        i \in IdChoices, ce \in {"none", "root", "leaf"}}

SelectAddresses(base) ==
    {GetXPath(base, e) : e \in {"L1", "L2", "span", "side"}}
        \cup {[form |-> "id", id |-> <<"g">>, parts |-> << >>]}

SelectIndexes == {-1, 0, 1, 2, 99}

SelectOffsets == -1..5

PriorSelections == {<< >>, <<[node |-> "sideText", start |-> 0, end |-> 1]>>}

InitSelect ==
    /\ \E base \in SelectBaseDocs, gone \in {NoNode, "L2"} :
          /\ dom = IF gone = NoNode THEN base ELSE Detach(base, gone)
          /\ \E a \in SelectAddresses(base), i \in SelectIndexes,
                st \in SelectOffsets, en \in SelectOffsets :
                m = [xpath |-> a, nodeIndex |-> i, start |-> st, end |-> en,
                     preview |-> << >>]
    /\ selection \in PriorSelections
    /\ focus = "body"
    /\ scrolled = << >>
    /\ pc = "Selecting"
    /\ max_passes = 1
    /\ pass = 0
    /\ processed = 0
    /\ matches = << >>
    /\ sel_res = << >>
    /\ returned = -1
    /\ mutations = 0
    /\ hist = InitHist(dom, selection)
    /\ probe = NoProbe

NextSelect == Select

SpecSelect == InitSelect /\ [][NextSelect]_vars

SelectDone == pc \in {"SelectFailed", "Triggering"}

-----------------------------------------------------------------------------
(* getXPath and elementByXPath on their own: the address of an element of the
   page is computed, the renderer may change the tree around the element, the
   address is resolved, and JS_SELECT_MATCH is called with it. *)

\* el and its ancestor elements, from the top
RECURSIVE AncestorChain(_, _)
AncestorChain(d, el) ==
    IF ~IsElement(d, el) THEN << >> ELSE Append(AncestorChain(d, ParentOf(d, el)), el)

AttachedElements(d) == {n \in Range(Subtree(d, "document")) : Kind(n) = "element"}

InsertFirst(d, parent, n) == [d EXCEPT !.kids[parent] = <<n>> \o @]

\* Where the renderer puts back an element that is out of the tree
HomeOf(n) == IF n = "side" THEN "body" ELSE "root"

\* ids: as in IdChoices, two different ones, and one that holds a quote
AddressIdChoices ==
    IdChoices \cup {<< <<"y">>, <<"x">> >>, << << >>, <<"x", Quote, "y">> >>}

AddressDocs ==
    {IF gone = NoNode THEN base ELSE Detach(base, gone) :
        base \in {MakeDoc(TRUE, i[1], i[2], "none", FALSE, Plain, OneSpan, Plain) :
                     i \in AddressIdChoices},
        gone \in {NoNode, "toggle", "side"}}

\* The trees one change of the renderer leads to that keeps el and its
\* ancestors where they are: a node outside the chain removed, or an element
\* that was out of the tree inserted.
TreeChanges(d, el) ==
    {d2 \in {Detach(d, n) : n \in Range(Subtree(d, "document")) \ {"document"}}
            \cup {InsertFirst(d, HomeOf(n), n) :
                    n \in {x \in {"toggle", "side"} : ParentOf(d, x) = NoNode}} :
        /\ el \in AttachedElements(d2)
        /\ AncestorChain(d2, el) = AncestorChain(d, el)}

InitAddress ==
    /\ dom \in AddressDocs
    /\ selection = << >>
    /\ focus = "body"
    /\ scrolled = << >>
    /\ pc = "Addressing"
    /\ max_passes = 1
    /\ pass = 0
    /\ processed = 0
    /\ matches = << >>
    /\ m = NoMatch
    /\ sel_res = << >>
    /\ returned = -1
    /\ mutations = 0
    /\ hist = InitHist(dom, selection)
    /\ \E e \in AttachedElements(dom) :
          probe = [step |-> "start", el |-> e, chain |-> AncestorChain(dom, e),
                   address |-> NoMatch.xpath, decoded |-> NoNode]

\* xpath: getXPath(el)
EncodeAddress ==
    /\ pc = "Addressing" /\ probe.step = "start"
    /\ probe' = [probe EXCEPT !.step = "encoded", !.address = GetXPath(dom, probe.el)]
    /\ UNCHANGED <<dom, selection, focus, scrolled, pc, max_passes, pass, processed,
                   matches, m, sel_res, returned, mutations, hist>>

\* The renderer changes the tree between the scan and the select
TreeChange ==
    /\ pc = "Addressing" /\ probe.step = "encoded"
    /\ mutations < MaxMutations
    /\ mutations' = mutations + 1
    /\ dom' \in TreeChanges(dom, probe.el)
    /\ UNCHANGED <<selection, focus, scrolled, pc, max_passes, pass, processed,
                   matches, m, sel_res, returned, hist, probe>>

\* const el = elementByXPath(xpath), observed on its own first; then the call of
\* JS_SELECT_MATCH with this address is due.
DecodeAddress ==
    /\ pc = "Addressing" /\ probe.step = "encoded"
    /\ probe' = [probe EXCEPT !.step = "decoded",
                              !.decoded = ElementByXPath(dom, probe.address)]
    /\ m' = [xpath |-> probe.address, nodeIndex |-> 0, start |-> 0, end |-> 1,
             preview |-> << >>]
    /\ pc' = "Selecting"
    /\ UNCHANGED <<dom, selection, focus, scrolled, max_passes, pass, processed,
                   matches, sel_res, returned, mutations, hist>>

NextAddress ==
    \/ EncodeAddress
    \/ TreeChange
    \/ DecodeAddress
    \/ Select

SpecAddress == InitAddress /\ [][NextAddress]_vars

-----------------------------------------------------------------------------
(* JS_FIND_MATCHES on its own: the scan of the first pass on a page whose
   first text node holds any text of dollars and letters up to MaxTextLen, and
   a second run of the script on the same tree. *)

ScanTexts == UNION {[1..k -> {Dollar, "a"}] : k \in 0..MaxTextLen}

OtherSpan == <<"$", "b", "$">>

ScanDocs ==
    {MakeDoc(hasRoot, i[1], i[2], "none", collapsed, v1, v2, v3) :
        hasRoot \in BOOLEAN, i \in UniqueIdChoices, collapsed \in BOOLEAN,
        v1 \in ScanTexts, v2 \in {Plain, OneSpan, DoubleSpan}, v3 \in {Plain, OtherSpan}}

InitScan ==
    /\ dom \in ScanDocs
    /\ selection = << >>
    /\ focus = "body"
    /\ scrolled = << >>
    /\ pc = "Scanning"
    /\ max_passes = 1
    /\ pass = 0
    /\ processed = 0
    /\ matches = << >>
    /\ m = NoMatch
    /\ sel_res = << >>
    /\ returned = -1
    /\ mutations = 0
    /\ hist = InitHist(dom, selection)
    /\ probe = [step |-> "start", again |-> << >>]

\* driver.execute_script(JS_FIND_MATCHES) once more, the tree being the same
ScanAgain ==
    /\ pc \in {"Selecting", "Returned"} /\ probe.step = "start"
    /\ probe' = [step |-> "rescanned", again |-> FindMatches(dom)]
    /\ UNCHANGED <<dom, selection, focus, scrolled, pc, max_passes, pass, processed,
                   matches, m, sel_res, returned, mutations, hist>>

NextScan ==
    \/ Scan
    \/ ScanAgain

SpecScan == InitScan /\ [][NextScan]_vars

\* The scan has been made
Scanned == pc \in {"Selecting", "Returned"}

-----------------------------------------------------------------------------
(* JS_FIND_MATCHES followed by JS_SELECT_MATCH for any one of the results, on
   a tree nobody changes in between.  The ids are unique; one of them holds a
   double quote. *)

AgreeIdChoices == UniqueIdChoices \cup {<< << >>, <<"x", Quote, "y">> >>}

InitAgree ==
    /\ dom \in Docs(AgreeIdChoices)
    /\ selection = << >>
    /\ focus = "body"
    /\ scrolled = << >>
    /\ pc = "Scanning"
    /\ max_passes = 1
    /\ pass = 0
    /\ processed = 0
    /\ matches = << >>
    /\ m = NoMatch
    /\ sel_res = << >>
    /\ returned = -1
    /\ mutations = 0
    /\ hist = InitHist(dom, selection)
    /\ probe = [step |-> "start", pick |-> 0]

\* The caller hands the i-th result to the selector
PickMatch ==
    /\ pc = "Selecting" /\ probe.step = "start"
    /\ \E i \in 1..Len(matches) :
          /\ m' = matches[i]
          /\ probe' = [step |-> "picked", pick |-> i]
    /\ UNCHANGED <<dom, selection, focus, scrolled, pc, max_passes, pass, processed,
                   matches, sel_res, returned, mutations, hist>>

NextAgree ==
    \/ Scan
    \/ PickMatch
    \/ Select

SpecAgree == InitAgree /\ [][NextAgree]_vars

-----------------------------------------------------------------------------
(* Claims about the pass loop *)

\* The spans a scan would report once the toggles are expanded
SpansLeft == Len(FindMatches(ExpandToggles(dom)))

\* C1 (under SpecIdeal): with N spans in the expanded tree, a trigger that
\* removes the triggered span and max_passes > N: selection never fails, every
\* pass takes exactly one span away (pass k starts with N - k spans left and k
\* processed), and the loop returns from the scan of pass N+1 (pass index N),
\* the first scan that finds nothing, with processed = N.
C1_TerminatesAtPassNPlusOne ==
    /\ pc # "SelectFailed"
    /\ (pc \in {"Loop", "Expanding", "Scanning"} /\ max_passes > hist.n0) =>
          /\ pass = processed
          /\ pass <= hist.n0
          /\ SpansLeft = hist.n0 - pass
    /\ (pc = "Returned" /\ max_passes > hist.n0) =>
          /\ hist.exit = "idle"
          /\ matches = << >>
          /\ pass = hist.n0
          /\ hist.scans = hist.n0 + 1
          /\ hist.triggers = hist.n0
          /\ returned = hist.n0

C1_Witness ==
    /\ pc = "Returned" /\ hist.exit = "idle"
    /\ hist.n0 = 3 /\ max_passes = 4 /\ returned = 3 /\ pass = 3

ControllerPcs ==
    {"Loop", "Expanding", "Scanning", "Selecting", "SelectFailed", "Triggering",
     "Settling"}

PcRank ==
    CASE pc = "Loop" -> 6 [] pc = "Expanding" -> 5 [] pc = "Scanning" -> 4
      [] pc = "Selecting" -> 3 [] pc = "Triggering" -> 2 [] pc = "SelectFailed" -> 1
      [] pc = "Settling" -> 1 [] OTHER -> 0

\* What is left to do: the passes not yet finished, then the steps of the pass
StepsLeft == IF pc = "Returned" THEN 0 ELSE (max_passes - pass) * 7 + PcRank

C2_Counts ==
    /\ hist.expands <= max_passes
    /\ hist.scans <= max_passes
    /\ hist.triggers <= max_passes
    /\ processed <= max_passes
    /\ pass <= max_passes
    /\ pc \in ControllerPcs \cup {"Returned"}
    /\ StepsLeft >= 0
    /\ (pc = "Returned" => returned = processed)
    /\ (max_passes = 0 =>
          /\ hist.expands = 0 /\ hist.scans = 0 /\ hist.selects = 0 /\ hist.triggers = 0
          /\ (pc = "Returned" => returned = 0))

\* C2: whatever the trigger and the renderer do, there are at most max_passes
\* expansions, scans and trigger invocations and processed <= max_passes; every
\* step of the loop lowers the number of steps it has left, which is never
\* negative, so the loop returns; with max_passes = 0 it returns 0 and has
\* called nothing.
C2_PassBound ==
    /\ []C2_Counts
    /\ [][pc' # pc => StepsLeft' < StepsLeft]_vars

C2_Witness ==
    /\ pc = "Returned" /\ hist.exit = "limit"
    /\ max_passes = MaxPasses /\ hist.triggers = max_passes /\ returned = max_passes
    /\ FindMatches(dom) # << >>

\* C3: a pass runs the Selector at most once and the trigger at most once; what
\* the Selector was given is the first element of the scan result of that same
\* pass; a trigger invocation is never followed by another without a scan
\* between them.
C3_OneMatchPerPass ==
    /\ hist.passSelects <= 1
    /\ hist.passTriggers <= 1
    /\ hist.passTriggers <= hist.passSelects
    /\ (pc \in {"Selecting", "SelectFailed", "Triggering", "Settling"} =>
          /\ hist.scanPass = pass
          /\ matches # << >>
          /\ m = matches[1])
    /\ (pc \in {"SelectFailed", "Triggering", "Settling"} =>
          hist.selArgs = <<SelectArgs(matches[1])>>)
    /\ ~hist.staleTrigger

C3_Witness ==
    /\ pc = "Settling" /\ hist.triggers = 2 /\ Len(matches) >= 2 /\ pass = 1

\* C4: when the Selector returned ok:false, the pass makes
\* no trigger invocation and leaves processed as it was at the start of the
\* pass, and the loop goes on to its next pass: it has returned after such a
\* pass only when that pass was the last one the bound allows.
C4_SelectFailureRecoverable ==
    /\ hist.passFailed =>
          /\ hist.passTriggers = 0
          /\ processed = hist.passStartProcessed
          /\ pc \in {"SelectFailed", "Loop", "Returned"}
    /\ (hist.passFailed /\ pc = "Returned") =>
          (hist.exit = "limit" /\ pass = max_passes)

C4_Witness ==
    /\ pc = "Settling" /\ hist.failures = 1 /\ hist.selects = 2
    /\ hist.passStartProcessed = 0 /\ processed = 1

\* C5: processed always equals the number of trigger invocations made so far,
\* and the value returned is that number, however the loop ended.
C5_ReturnedCount ==
    /\ processed = hist.triggers
    /\ (pc = "Returned" => returned = hist.triggers)

C5_Witness ==
    /\ pc = "Returned" /\ hist.exit = "idle" /\ returned = 2 /\ hist.failures >= 1

\* C6: when the loop returns at the pass bound with spans still in the tree,
\* the result tells this outcome from an Idle termination.  The result is the
\* count alone, and an Idle termination can return any count below
\* max_passes (its last pass triggered nothing), so the outcome must return a
\* count no Idle termination returns.
C6_PassLimitDistinguishable ==
    (pc = "Returned" /\ hist.exit = "limit" /\ FindMatches(dom) # << >>) =>
        returned >= max_passes

\* C7: when the loop has returned, every selection attempt returned ok:false,
\* the first match of the tree still fails selection, another match of the
\* tree would be selected successfully and max_passes exceeds the number of
\* matches, then that other match has been triggered.
C7_OtherMatchTriggered ==
    LET ms    == FindMatches(dom)
        Ok(i) == SelectMatch(dom, selection, focus, scrolled, SelectArgs(ms[i])).res.ok
    IN  (/\ pc = "Returned"
         /\ hist.selects >= 1 /\ hist.failures = hist.selects
         /\ Len(ms) >= 2 /\ ~Ok(1) /\ (\E i \in 2..Len(ms) : Ok(i))
         /\ max_passes > Len(ms))
        => hist.triggers >= 1

\* No element of the document carries the class of the content root
RootAbsent(d) == AttachedElements(d) \cap d.content = {}

\* C16: while the content root is absent the scan script returns the empty
\* sequence, and a pass that scans then ends the loop as Idle: no Selector call
\* and no trigger in that pass, processed unchanged and returned as it is.
C16_MissingRoot ==
    /\ [](RootAbsent(dom) => FindMatches(dom) = << >>)
    /\ []((pc = "Returned" /\ RootAbsent(dom) /\ hist.exit = "idle") =>
            /\ matches = << >>
            /\ hist.passSelects = 0 /\ hist.passTriggers = 0
            /\ processed = hist.passStartProcessed
            /\ returned = processed)
    /\ [][(pc = "Scanning" /\ pc' # pc /\ RootAbsent(dom)) =>
            /\ pc' = "Returned" /\ hist'.exit = "idle"
            /\ matches' = << >>
            /\ processed' = processed /\ returned' = processed
            /\ hist'.selects = hist.selects /\ hist'.triggers = hist.triggers]_vars

C16_Witness ==
    /\ pc = "Returned" /\ hist.exit = "idle" /\ RootAbsent(dom)
    /\ returned = 1 /\ hist.n0 >= 2 /\ pass = 1

-----------------------------------------------------------------------------
(* Claims about JS_SELECT_MATCH, under SpecSelect *)

Resolved == ElementByXPath(dom, m.xpath)

ResolvedTextNodes == GetTextNodes(dom, Resolved)

\* C8: the script returns ok:true exactly when the address resolves, the node
\* index is one of the element's text nodes and 0 <= start < end <= length of
\* that node's text; otherwise the reason is that of the first check that
\* fails, in the order not found, index out of range, offsets invalid.
C8_ValidationOrder ==
    SelectDone =>
        LET found   == Resolved # NoNode
            inRange == 0 <= m.nodeIndex /\ m.nodeIndex < Len(ResolvedTextNodes)
            text    == dom.value[ResolvedTextNodes[m.nodeIndex + 1]]
            offsets == 0 <= m.start /\ m.start < m.end /\ m.end <= Len(text)
        IN  /\ Len(sel_res) = 1
            /\ sel_res[1].ok <=> (found /\ inRange /\ offsets)
            /\ sel_res[1].error =
                  IF ~found THEN "Element not found for XPath"
                  ELSE IF ~inRange THEN "Text node index out of range"
                  ELSE IF ~offsets THEN "Offsets invalid for text node"
                  ELSE ""
            /\ (pc = "Triggering") <=> sel_res[1].ok

C8_Witness ==
    /\ SelectDone /\ m.start = 5 /\ m.end = 3 /\ m.nodeIndex = 1
    /\ sel_res = <<Failure("Offsets invalid for text node")>>

\* C9: after ok:true the selection is exactly one range, on the text node with
\* ordinal nodeIndex of the resolved element, from start to end; whatever was
\* selected before is no longer selected.
C9_SelectionIsTheRange ==
    (SelectDone /\ sel_res[1].ok) =>
        /\ Len(selection) = 1
        /\ selection[1].node = ResolvedTextNodes[m.nodeIndex + 1]
        /\ selection[1].start = m.start
        /\ selection[1].end = m.end

C9_Witness ==
    /\ SelectDone /\ sel_res[1].ok
    /\ hist.selection0 # << >> /\ selection # hist.selection0
    /\ selection[1].node = "t2"

AncestorsOrSelf(d, n) == {a \in Nodes : IsElement(d, a) /\ n \in Range(Subtree(d, a))}

\* C10: after ok:true, focus is on an element marked editable that is the
\* resolved element or one of its ancestors, and the nearest such.
C10_FocusOnEditableAncestor ==
    (SelectDone /\ sel_res[1].ok) =>
        /\ IsElement(dom, focus)
        /\ focus \in dom.editable
        /\ focus \in AncestorsOrSelf(dom, Resolved)
        /\ \A a \in AncestorsOrSelf(dom, Resolved) \cap dom.editable :
              a \in AncestorsOrSelf(dom, focus)

\* C11 (under SpecSelect): a call of the script, whatever it returns, leaves the
\* tree as it was: the child lists, the text of every text node and the
\* attributes; only scrolled, selection and focus may differ afterwards.
C11_SelectorFrame == [][pc = "Selecting" => dom' = dom]_vars

C11_Witness ==
    /\ SelectDone /\ sel_res[1].ok
    /\ scrolled # << >> /\ focus # "body" /\ selection # hist.selection0
    /\ m.end - m.start = Len(dom.value[selection[1].node])

-----------------------------------------------------------------------------
(* Claims about getXPath and elementByXPath, under SpecAddress *)

\* No two elements of the document carry the same id
UniqueIds(d) ==
    \A a, b \in AttachedElements(d) :
        (IdOf(d, a) # << >> /\ IdOf(d, a) = IdOf(d, b)) => a = b

\* C12: on an unchanged tree whose ids are unique, resolving the address
\* computed for an element gives that element.
C12_RoundTrip ==
    (probe.step = "decoded" /\ mutations = 0 /\ UniqueIds(dom)) =>
        probe.decoded = probe.el

\* C13: when the tree was changed after the address was computed, with the
\* element and all its ancestors left in place (the chain of ancestors is the
\* same sequence), ids unique and the address a well-formed expression,
\* resolving the address still gives the element.
C13_Robust ==
    (/\ probe.step = "decoded" /\ mutations >= 1
     /\ UniqueIds(dom) /\ XPathWellFormed(probe.address)
     /\ probe.el \in AttachedElements(dom)
     /\ AncestorChain(dom, probe.el) = probe.chain) =>
        probe.decoded = probe.el

\* C14: resolving an address gives an element only when the address selects
\* exactly one element of the current tree; when it selects two or more the
\* answer is not-found.
C14_Unambiguous ==
    (probe.step = "decoded" /\ XPathWellFormed(probe.address)) =>
        /\ IsElement(dom, probe.decoded) =>
              Cardinality(XPathNodeSet(dom, probe.address)) = 1
        /\ Cardinality(XPathNodeSet(dom, probe.address)) >= 2 =>
              probe.decoded = NoNode

\* The children of the parent of el that are elements with el's tag name
TagMates(d, el) ==
    {c \in Range(Kids(d, ParentOf(d, el))) : Kind(c) = "element" /\ Tag(c) = Tag(el)}

\* Those of them that come before el
TagMatesBefore(d, el) ==
    {c \in TagMates(d, el) :
        IndexIn(Kids(d, ParentOf(d, el)), c) < IndexIn(Kids(d, ParentOf(d, el)), el)}

\* C15: the address of an element with an id is the reference to that id; of
\* any other element it is one segment per element of the chain from the top
\* down to the element itself, each with the tag name, and with the 1-based
\* ordinal among the same-tag children of the parent exactly when the parent
\* has more than one child of that tag.
C15_Encoding ==
    (probe.step = "encoded" /\ mutations = 0) =>
        LET a == probe.address
            chain == AncestorChain(dom, probe.el)
        IN  IF IdOf(dom, probe.el) # << >>
            THEN a.form = "id" /\ a.id = IdOf(dom, probe.el)
            ELSE /\ a.form = "path"
                 /\ Len(a.parts) = Len(chain)
                 /\ \A i \in 1..Len(chain) :
                       /\ a.parts[i].tag = Tag(chain[i])
                       /\ a.parts[i].idx =
                             IF Cardinality(TagMates(dom, chain[i])) > 1
                             THEN Cardinality(TagMatesBefore(dom, chain[i])) + 1
                             ELSE 0

C15_Witness ==
    /\ probe.step = "encoded" /\ probe.el = "span"
    /\ probe.address.form = "path"
    /\ probe.address.parts =
          <<[tag |-> "html", idx |-> 0], [tag |-> "body", idx |-> 0],
            [tag |-> "div", idx |-> 2], [tag |-> "div", idx |-> 2],
            [tag |-> "span", idx |-> 0]>>

-----------------------------------------------------------------------------
(* Claims about JS_FIND_MATCHES, under SpecScan *)

\* The place of node n in document order
DocPos(d, n) == IndexIn(Subtree(d, "document"), n)

\* The leaf a result is about, its text-node ordinal and its start
ScanKey(d, mr) == <<DocPos(d, ElementByXPath(d, mr.xpath)), mr.nodeIndex, mr.start>>

KeyLess(a, b) ==
    \/ a[1] < b[1]
    \/ a[1] = b[1] /\ a[2] < b[2]
    \/ a[1] = b[1] /\ a[2] = b[2] /\ a[3] < b[3]

TextOf(d, mr) ==
    d.value[GetTextNodes(d, ElementByXPath(d, mr.xpath))[mr.nodeIndex + 1]]

SameTextNode(a, b) == a.xpath = b.xpath /\ a.nodeIndex = b.nodeIndex

\* C18: every result of a scan has 0 <= start < end <= length of its text
\* node, a dollar at start and at end - 1, and two results of the same text node
\* cover disjoint ranges [start, end).
C18_WellFormed ==
    Scanned =>
        \A i \in 1..Len(matches) :
            LET mr == matches[i]
                s  == TextOf(dom, mr)
            IN  /\ 0 <= mr.start /\ mr.start < mr.end /\ mr.end <= Len(s)
                /\ CharAt(s, mr.start) = Dollar
                /\ CharAt(s, mr.end - 1) = Dollar
                /\ \A j \in 1..Len(matches) :
                      (j # i /\ SameTextNode(mr, matches[j])) =>
                          mr.end <= matches[j].start \/ matches[j].end <= mr.start

C18_Witness ==
    /\ Scanned /\ Len(matches) >= 2
    /\ SameTextNode(matches[1], matches[2])
    /\ matches[1].end < matches[2].start
    /\ matches[2].end = Len(TextOf(dom, matches[2]))

\* The blocks of s: two dollars, a non-empty content without a dollar, two
\* dollars, as the pair of offsets <<first character, one past the last>>
Blocks(s) ==
    {b \in (0..Len(s)) \X (0..Len(s)) :
        /\ b[2] >= b[1] + 5
        /\ CharAt(s, b[1]) = Dollar /\ CharAt(s, b[1] + 1) = Dollar
        /\ CharAt(s, b[2] - 2) = Dollar /\ CharAt(s, b[2] - 1) = Dollar
        /\ \A k \in (b[1] + 2)..(b[2] - 3) : CharAt(s, k) # Dollar}

\* The text nodes the scan walks: <<leaf, ordinal>> for the candidates in dom
WalkedTextNodes ==
    IF RootAbsent(dom) THEN {}
    ELSE {w \in Range(Candidates(dom, ContentRoot(dom))) \X (0..Cardinality(TextNodes)) :
             w[2] < Len(GetTextNodes(dom, w[1]))}

WalkedText(w) == dom.value[GetTextNodes(dom, w[1])[w[2] + 1]]

\* The results of the scan for one walked text node
ResultsOf(w) ==
    {i \in 1..Len(matches) :
        matches[i].xpath = GetXPath(dom, w[1]) /\ matches[i].nodeIndex = w[2]}

\* Results lying inside the block without being the block
SplitsBlock(w, b) ==
    \E i \in ResultsOf(w) :
        /\ b[1] <= matches[i].start /\ matches[i].end <= b[2]
        /\ matches[i].end - matches[i].start < b[2] - b[1]

\* The opening delimiter of the block is not inside a match that starts before it
OpeningFree(w, b) ==
    \A i \in ResultsOf(w) : ~(matches[i].start < b[1] /\ b[1] < matches[i].end)

\* C19 as stated: every block $$...$$ of a walked text node is covered whole
\* by one result of the scan, and no result is a piece of the block.
C19_BlockNeverSplit ==
    Scanned =>
        \A w \in WalkedTextNodes : \A b \in Blocks(WalkedText(w)) :
            /\ \E i \in ResultsOf(w) : matches[i].start <= b[1] /\ b[2] <= matches[i].end
            /\ ~SplitsBlock(w, b)

\* C19 amended: a block $$...$$ whose opening delimiter is not inside a match
\* that starts earlier in the text node is one result of the scan, from its
\* first dollar to its last, and no other result lies inside it.
C19_BlockWholeWhenReached ==
    Scanned =>
        \A w \in WalkedTextNodes : \A b \in Blocks(WalkedText(w)) :
            OpeningFree(w, b) =>
                /\ \E i \in ResultsOf(w) : matches[i].start = b[1] /\ matches[i].end = b[2]
                /\ ~SplitsBlock(w, b)

C19_Witness ==
    /\ Scanned
    /\ dom.value["t1"] = <<"a", "$", "$", "a", "$", "$", "a">>
    /\ <<1, 6>> \in Blocks(dom.value["t1"])
    /\ matches # << >> /\ matches[1].start = 1 /\ matches[1].end = 6

\* s[p..e-1] is a double-dollar span: $$, at least one character, and the
\* first $$ after that
IsDoubleSpan(s, p, e) ==
    /\ 0 <= p /\ p + 5 <= e /\ e <= Len(s)
    /\ s[p + 1] = Dollar /\ s[p + 2] = Dollar
    /\ s[e - 1] = Dollar /\ s[e] = Dollar
    /\ \A q \in (p + 3)..(e - 3) : ~(s[q + 1] = Dollar /\ s[q + 2] = Dollar)

\* s[p..e-1] is a single-dollar span: $, at least one character, and the first
\* $ after that
IsSingleSpan(s, p, e) ==
    /\ 0 <= p /\ p + 3 <= e /\ e <= Len(s)
    /\ s[p + 1] = Dollar /\ s[e] = Dollar
    /\ \A q \in (p + 2)..(e - 2) : s[q + 1] # Dollar

\* The delimiter span that begins at p, the double form first
IsSpan(s, p, e) ==
    \/ IsDoubleSpan(s, p, e)
    \/ IsSingleSpan(s, p, e) /\ ~\E e2 \in 0..Len(s) : IsDoubleSpan(s, p, e2)

\* The leftmost-first, non-overlapping occurrences in s from offset p on: the
\* text is read from the left; where a span begins it is an occurrence and the
\* reading goes on after it, elsewhere it goes on with the next character.
RECURSIVE Occurrences(_, _)
Occurrences(s, p) ==
    IF p >= Len(s) THEN {}
    ELSE IF \E e \in 0..Len(s) : IsSpan(s, p, e)
         THEN LET e == CHOOSE e \in 0..Len(s) : IsSpan(s, p, e)
              IN  {<<p, e>>} \cup Occurrences(s, e)
         ELSE Occurrences(s, p + 1)

\* The leaves under the content root that have a layout box
VisibleLeaves(d) ==
    {n \in AttachedElements(d) :
        /\ n \in d.leaf /\ n \notin d.nobox
        /\ \E r \in d.content : r # n /\ r \in Range(AncestorChain(d, n))}

\* The text nodes below n, in any depth
TextNodesBelow(d, n) == {t \in Range(Subtree(d, n)) : t \in TextNodes}

\* What a complete scan reports: one entry for each occurrence in each text
\* node of each visible leaf
ExpectedSpans(d) ==
    UNION {UNION {{[leaf |-> n, text |-> t, start |-> o[1], end |-> o[2]] :
                      o \in Occurrences(d.value[t], 0)} :
                  t \in TextNodesBelow(d, n)} :
           n \in VisibleLeaves(d)}

\* The occurrence a result reports
Reported(d, mr) ==
    [leaf  |-> ElementByXPath(d, mr.xpath),
     text  |-> GetTextNodes(d, ElementByXPath(d, mr.xpath))[mr.nodeIndex + 1],
     start |-> mr.start, end |-> mr.end]

\* The page with $$a$$ in one visible leaf and $b$ in another
TwoLeafPage(d) ==
    /\ ~RootAbsent(d) /\ VisibleLeaves(d) = {"L1", "L2"}
    /\ d.value["t1"] = <<"$", "$", "a", "$", "$">> /\ d.value["t2"] = <<"a">>
    /\ d.value["t3"] = <<"$", "b", "$">>

\* C20: the results of a scan are, one for one, the leftmost-first
\* non-overlapping delimiter spans of the text nodes of the visible leaves
\* under the content root; the page with $$a$$ in one leaf and $b$ in another
\* gives two results, [0,5) in the first leaf and [0,3) in the second.
C20_Complete ==
    Scanned =>
        /\ Len(matches) = Cardinality(ExpectedSpans(dom))
        /\ {Reported(dom, matches[i]) : i \in 1..Len(matches)} = ExpectedSpans(dom)
        /\ TwoLeafPage(dom) =>
              /\ Len(matches) = 2
              /\ Reported(dom, matches[1]) = [leaf |-> "L1", text |-> "t1", start |-> 0, end |-> 5]
              /\ Reported(dom, matches[2]) = [leaf |-> "L2", text |-> "t3", start |-> 0, end |-> 3]

C20_Witness == Scanned /\ TwoLeafPage(dom) /\ Len(matches) = 2

\* C21: every result of a scan carries the address of an element that is,
\* in the scanned tree, below the content root, marked as an editable leaf and
\* rendered, with the ordinal of one of its text nodes; the address is that
\* of the element (its last segment is an element's tag or it is an id
\* reference); no result carries the address of a hidden leaf, of an element
\* that is not a leaf, or of an element outside the content root.
C21_Scope ==
    Scanned =>
        /\ \A i \in 1..Len(matches) :
              \E n \in VisibleLeaves(dom) :
                  /\ matches[i].xpath = GetXPath(dom, n)
                  /\ matches[i].nodeIndex \in 0..(Len(GetTextNodes(dom, n)) - 1)
        /\ \A n \in AttachedElements(dom) \ VisibleLeaves(dom) :
              \A i \in 1..Len(matches) : matches[i].xpath # GetXPath(dom, n)

\* A scan that reports the first leaf while the second leaf is hidden with a
\* span in it, the side bar outside the root has a span, and the span element
\* inside the first leaf, not a leaf itself, holds the matched text
C21_Witness ==
    /\ Scanned /\ ~RootAbsent(dom)
    /\ "L2" \in dom.nobox /\ dom.value["t3"] = <<"$", "b", "$">>
    /\ dom.value["sideText"] = <<"$", "a", "$">>
    /\ dom.value["t1"] = <<"a">> /\ dom.value["t2"] = <<"$", "a", "$">>
    /\ Len(matches) = 1
    /\ matches[1].xpath = GetXPath(dom, "L1") /\ matches[1].nodeIndex = 1

-----------------------------------------------------------------------------
(* Claims about a scan followed by a selection, under SpecAgree *)

\* The text node a result was found in: the one with the result's ordinal in
\* the rendered leaf whose address the result carries
ScannedNode(d, mr) ==
    LET n == CHOOSE n \in VisibleLeaves(d) : GetXPath(d, n) = mr.xpath
    IN  GetTextNodes(d, n)[mr.nodeIndex + 1]

\* The selector has been run
SelectEnded == pc \in {"SelectFailed", "Triggering", "Raised"}

\* C22: selecting any result of a scan on the unchanged tree succeeds, and the
\* selection is then the single range [start, end) of the text node the scan
\* found the result in, a text that begins and ends with a dollar.
C22_ScanSelectAgree ==
    SelectEnded =>
        /\ pc = "Triggering" /\ sel_res # << >> /\ sel_res[1].ok
        /\ selection = <<[node |-> ScannedNode(dom, m), start |-> m.start, end |-> m.end]>>
        /\ CharAt(dom.value[selection[1].node], m.start) = Dollar
        /\ CharAt(dom.value[selection[1].node], m.end - 1) = Dollar

-----------------------------------------------------------------------------
(* Claims about the order of the steps of a pass, under Spec *)

\* C23: at every scan exactly one expansion step has been made since the
\* scan before it: the expansion steps counted are one more than the scans
\* while a scan is due, and as many as the scans at any other time.
C23_ExpandBeforeScan ==
    hist.expands = hist.scans + (IF pc = "Scanning" THEN 1 ELSE 0)

\* The third scan of a run in which a selection has failed and a trigger has
\* been followed by the settle delay
C23_Witness ==
    /\ pc = "Selecting" /\ hist.scans = 3 /\ hist.expands = 3
    /\ hist.failures >= 1 /\ hist.triggers >= 1

\* The steps of the loop: from the loop head (where a pass ends by continue or
\* by the end of the body) into the next pass or out of the function
LoopSteps ==
    {<<"Loop", "Expanding">>, <<"Loop", "Returned">>,
     <<"Expanding", "Scanning">>,
     <<"Scanning", "Returned">>, <<"Scanning", "Selecting">>,
     <<"Selecting", "Triggering">>, <<"Selecting", "SelectFailed">>,
     <<"SelectFailed", "Loop">>,
     <<"Triggering", "Settling">>, <<"Settling", "Loop">>}

\* The steps of the diagram: the pass that follows a settle delay or a failed
\* selection begins at the scan
DiagramSteps == LoopSteps \cup {<<"Loop", "Scanning">>}

\* C24 as stated: every step is one of the diagram; after a settle delay or a
\* failed selection (the loop head of a later pass) the next state is the scan,
\* unless the passes are used up.
C24_DiagramOnly ==
    [][pc' # pc =>
          /\ <<pc, pc'>> \in DiagramSteps
          /\ (pc = "Loop" /\ pass > 0 /\ pc' # "Returned") => pc' = "Scanning"]_vars

\* C24 amended: every step is one of LoopSteps; the step that follows the
\* settle delay or a failed selection is the loop head, from which the next
\* pass begins with the expansion, or the function returns when the passes are
\* used up; the scan is entered only from the expansion; a return is final
\* and is either the scan without matches or the used-up passes; the trigger
\* is entered only from a selection that returned ok.
C24_Transitions ==
    [][pc' # pc =>
          /\ <<pc, pc'>> \in LoopSteps
          /\ pc' = "Scanning" => pc = "Expanding"
          /\ pc' = "Triggering" => (sel_res' # << >> /\ sel_res'[1].ok)
          /\ pc' = "SelectFailed" => ~sel_res'[1].ok
          /\ (pc = "Loop" /\ pc' = "Returned") =>
                (pass = max_passes /\ hist'.exit = "limit")
          /\ (pc = "Loop" /\ pc' = "Expanding") => pass < max_passes
          /\ (pc = "Scanning" /\ pc' = "Returned") =>
                (matches' = << >> /\ hist'.exit = "idle")]_vars

\* The expansion of a third pass, entered after a failed selection in one
\* pass and a settle delay in another
C24_Witness ==
    /\ pc = "Expanding" /\ pass = 2
    /\ hist.failures = 1 /\ hist.triggers = 1

-----------------------------------------------------------------------------
(* Claims about the effects of JS_SELECT_MATCH, under SpecSelect *)

\* C25: after a call that returned ok:false nothing has been scrolled and
\* the selection and the focus are those of before the call; a scroll, a new
\* selection or a new focus is found only after ok:true.
C25_FailedSelectNoEffect ==
    /\ pc = "SelectFailed" =>
          (scrolled = << >> /\ selection = hist.selection0 /\ focus = "body")
    /\ (SelectDone /\ (scrolled # << >> \/ selection # hist.selection0 \/ focus # "body")) =>
          sel_res[1].ok

-----------------------------------------------------------------------------
(* Claims about the loop and the renderer, under Spec *)

\* The characters a selection covers in tree d
SelectedText(d, sel) == Slice(d.value[sel[1].node], sel[1].start, sel[1].end)

\* A text that begins and ends with the delimiter
IsDelimited(s) == Len(s) >= 2 /\ s[1] = Dollar /\ s[Len(s)] = Dollar

\* The characters the scan matched for mr (the preview begins at the start of
\* the text for every start up to 10)
MatchedText(mr) == Slice(mr.preview, mr.start, mr.end)

\* C26: whatever the renderer did to the tree between the scan and the
\* selection, a selection that returns ok (the trigger follows) has selected,
\* in the tree as it is now, a text that begins and ends with a dollar and is
\* the text the scan matched.
C26_TriggerOnSpan ==
    [][(pc = "Selecting" /\ pc' = "Triggering" /\ UniqueIds(dom)) =>
          /\ IsDelimited(SelectedText(dom', selection'))
          /\ SelectedText(dom', selection') = MatchedText(m)]_vars

\* C27: while the renderer has made no change of its own (the only changes of
\* the tree are the removals the triggers cause, each applied at once or not
\* yet), the triggers counted do not exceed the spans present at the start:
\* no span has been triggered twice.
C27_NoDoubleTrigger ==
    mutations = 0 => (processed <= hist.n0 /\ hist.triggers <= hist.n0)

====
